---------------------------- MODULE Spec2Model ----------------------------
(***************************************************************************)
(* mealsteals: the deal store shared by the scraper (dealscraper) and the  *)
(* API (dealAPI), the scraper's reconciliation pass (save_deals) and the   *)
(* API's day-of-week normalizers.                                          *)
(*                                                                         *)
(* Strings are TLA+ strings drawn from a small universe; str.lower() and   *)
(* str.strip() are tables over that universe.  Python's None is NULL in a  *)
(* string field, NoPrice in a price and NoTime in a timestamp.  A price is *)
(* an integer number of cents (Decimal quantized to 0.01).  A timestamp is *)
(* the value of a logical clock that ticks once per operation.             *)
(***************************************************************************)
EXTENDS Integers, Sequences, FiniteSets, TLC

VARIABLES
    deals,      \* the deals table: uuid -> item
    nextUuid,   \* the next fresh uuid (uuid4 never repeats)
    now,        \* the logical clock
    last,       \* what the last operation was and what it reported
    dayIn,      \* the value handed to a day-of-week normalizer
    dayOut,     \* what the normalizer returned
    dayAgain,   \* what the normalizer returned for the list form of dayOut
    dayStage,   \* how far the normalizer run has got
    pageIn,     \* a deals page: what the models and the image fetch answer
    pageOut,    \* what find_deal_details left in self.deals[link]
    hoursIn,    \* a restaurant's open_hours and timezone, and the wall clock
    hoursOut,   \* what _is_restaurant_open_now returned
    restaurants, \* the restaurants table: uuid -> item
    passes,     \* each running handler: where its save_deals is, what it read
    linkIn,     \* a link of a first-pass page: its text and its href
    linkOut,    \* what the second pass recorded in self.deals for it
    venue,      \* the last run of find_deals on a venue: its pages' results
                \* and what was handed to save_deals
    pattern     \* a current day and a day pattern, and what _day_matches said

vars == <<deals, nextUuid, now, last, dayIn, dayOut, dayAgain, dayStage,
          pageIn, pageOut, hoursIn, hoursOut, restaurants, passes,
          linkIn, linkOut, venue, pattern>>
linkVars == <<linkIn, linkOut>>
hoursVars == <<hoursIn, hoursOut>>
storeVars == <<deals, nextUuid, now, last>>
dayVars == <<dayIn, dayOut, dayAgain, dayStage>>
extractVars == <<pageIn, pageOut>>

---------------------------------------------------------------------------
(* Bounds *)

MaxTime == 3        \* operations per behaviour
MaxDeals == 3       \* uuids that can be handed out
MaxCands == 2       \* candidates in one scrape
MaxDayList == 2     \* elements of a day list handed to a normalizer
MaxHours == 2       \* lines of a restaurant's open_hours
MaxRestaurants == 2 \* restaurant uuids that can be handed out
MaxUpserts == 4     \* operations on the restaurants table per behaviour
MaxVenueRuns == 2   \* runs of find_deals on venues per behaviour
MaxPages == 2       \* deals pages of a venue
MaxPasses == 3      \* batch writes of concurrent handlers per behaviour

---------------------------------------------------------------------------
(* Python values *)

NULL == "<None>"
NoPrice == -1
NoTime == 0

\* str.lower() on the strings of the model
Lower(s) ==
    CASE s = "Mon" -> "mon"
      [] s = " Tue " -> " tue "
      [] s = "Tue" -> "tue"
      [] s = "Daily" -> "daily"
      [] s = "FRIDAY" -> "friday"
      [] s = " Wings" -> " wings"
      [] s = "Wings" -> "wings"
      [] s = "Tuesday Rump Night" -> "tuesday rump night"
      [] s = "Steakhouse Specials" -> "steakhouse specials"
      [] s = "Friday specials on Facebook" -> "friday specials on facebook"
      [] s = " Menu " -> " menu "
      [] s = "/uploads/2024/02/Wednesday.jpg" -> "/uploads/2024/02/wednesday.jpg"
      [] s = "/uploads/Pizza.JPG" -> "/uploads/pizza.jpg"
      [] OTHER -> s

\* str.strip() on the strings of the model
Strip(s) ==
    CASE s = " Tue " -> "Tue"
      [] s = " tue " -> "tue"
      [] s = " Wings" -> "Wings"
      [] s = " wings" -> "wings"
      [] s = "  " -> ""
      [] s = " menu " -> "menu"
      [] OTHER -> s

\* a value that is None, a str or a list of str
NullV == [t |-> "null", s |-> "", l |-> <<>>]
StrV(s) == [t |-> "str", s |-> s, l |-> <<>>]
ListV(l) == [t |-> "list", s |-> "", l |-> l]

\* a key that a dict does not have: d.get(key) is None, d.values() has no
\* entry for it
MissingV == [t |-> "missing", s |-> "", l |-> <<>>]

\* Python truthiness of such a value: `not v`
Falsy(v) ==
    \/ v.t = "null"
    \/ v.t = "str" /\ v.s = ""
    \/ v.t = "list" /\ v.l = <<>>

Range(f) == {f[i] : i \in DOMAIN f}

---------------------------------------------------------------------------
(* dealAPI/app/schemas/deal.py: DayOfWeek and DealBase.normalize_day_of_week *)

\* [day.value for day in DayOfWeek]
DayOfWeek ==
    <<"monday", "tuesday", "wednesday", "thursday", "friday", "saturday", "sunday">>

CanonicalDays == Range(DayOfWeek)

everyday_variants ==
    {"everyday", "daily", "all week", "all days", "every day",
     "7 days", "whole week", "entire week", "all"}

day_mapping ==
    [k \in {"monday", "tuesday", "wednesday", "thursday", "friday", "saturday",
            "sunday", "mon", "tue", "wed", "thu", "fri", "sat", "sun"} |->
        CASE k \in {"monday", "mon"} -> "monday"
          [] k \in {"tuesday", "tue"} -> "tuesday"
          [] k \in {"wednesday", "wed"} -> "wednesday"
          [] k \in {"thursday", "thu"} -> "thursday"
          [] k \in {"friday", "fri"} -> "friday"
          [] k \in {"saturday", "sat"} -> "saturday"
          [] OTHER -> "sunday"]

\* a mutant of normalize_day_list: an everyday variant in a list is skipped
\* like any other unparseable item instead of returning every day at once
RECURSIVE normalize_day_list_noShortCircuit(_, _)
normalize_day_list_noShortCircuit(items, normalized_days) ==
    IF items = <<>>
    THEN IF normalized_days # <<>> THEN normalized_days ELSE DayOfWeek
    ELSE LET item_lower == Strip(Lower(Head(items))) IN
         IF item_lower \in DOMAIN day_mapping
         THEN normalize_day_list_noShortCircuit(Tail(items),
                  Append(normalized_days, day_mapping[item_lower]))
         ELSE normalize_day_list_noShortCircuit(Tail(items), normalized_days)

\* the loop over a list input: an everyday variant returns at once, a day is
\* appended, anything else is skipped
RECURSIVE normalize_day_list(_, _)
normalize_day_list(items, normalized_days) ==
    IF items = <<>>
    THEN IF normalized_days # <<>> THEN normalized_days ELSE DayOfWeek
    ELSE LET item_lower == Strip(Lower(Head(items))) IN
         IF item_lower \in everyday_variants THEN DayOfWeek
         ELSE IF item_lower \in DOMAIN day_mapping
              THEN normalize_day_list(Tail(items),
                                      Append(normalized_days, day_mapping[item_lower]))
              ELSE normalize_day_list(Tail(items), normalized_days)

\* a mutant of normalize_day_of_week: an unparseable scalar is returned as
\* the empty list instead of every day
normalize_day_of_week_noFallback(v) ==
    IF Falsy(v) THEN DayOfWeek
    ELSE IF v.t = "str"
    THEN LET v_lower == Strip(Lower(v.s)) IN
         IF v_lower \in everyday_variants THEN DayOfWeek
         ELSE IF v_lower \in DOMAIN day_mapping THEN <<day_mapping[v_lower]>>
         ELSE <<>>
    ELSE normalize_day_list(v.l, <<>>)

\* a mutant of normalize_day_of_week: an abbreviation in a list is kept as
\* written instead of being mapped to its day
normalize_day_of_week_keepAbbrev(v) ==
    IF Falsy(v) THEN DayOfWeek
    ELSE IF v.t = "str"
    THEN LET v_lower == Strip(Lower(v.s)) IN
         IF v_lower \in everyday_variants THEN DayOfWeek
         ELSE IF v_lower \in DOMAIN day_mapping THEN <<v_lower>>
         ELSE DayOfWeek
    ELSE normalize_day_list(v.l, <<>>)

normalize_day_of_week(v) ==
    IF Falsy(v) THEN DayOfWeek
    ELSE IF v.t = "str"
    THEN LET v_lower == Strip(Lower(v.s)) IN
         IF v_lower \in everyday_variants THEN DayOfWeek
         ELSE IF v_lower \in DOMAIN day_mapping THEN <<day_mapping[v_lower]>>
         ELSE DayOfWeek
    ELSE normalize_day_list(v.l, <<>>)

---------------------------------------------------------------------------
(* dealAPI/app/repositories/deal_repository.py: _normalize_days_from_db *)

RECURSIVE normalize_days_from_db_loop(_, _)
normalize_days_from_db_loop(day_strings, normalized_days) ==
    IF day_strings = <<>>
    THEN IF normalized_days # <<>> THEN normalized_days ELSE DayOfWeek
    ELSE LET day_str == Head(day_strings)
             day_lower == Strip(Lower(day_str)) IN
         IF day_str = "" THEN normalize_days_from_db_loop(Tail(day_strings), normalized_days)
         ELSE IF day_lower \in everyday_variants THEN DayOfWeek
         ELSE IF day_lower \in DOMAIN day_mapping
              THEN normalize_days_from_db_loop(Tail(day_strings),
                       Append(normalized_days, day_mapping[day_lower]))
              ELSE normalize_days_from_db_loop(Tail(day_strings), normalized_days)

normalize_days_from_db(day_strings) ==
    IF day_strings = <<>> THEN DayOfWeek
    ELSE normalize_days_from_db_loop(day_strings, <<>>)


---------------------------------------------------------------------------
(* dealscraper/repository/deal_repository.py *)

Restaurants == {"r1", "r2"}

\* what the model returns for a page: a dict with the keys dish, price,
\* day_of_week and notes (a missing key reads as None)
Cand(dish, price, day_of_week, notes) ==
    [dish |-> dish, price |-> price, day_of_week |-> day_of_week, notes |-> notes]

Candidates ==
    { Cand("wings", "$10", ListV(<<"mon", "tue">>), NULL),
      Cand(" Wings", "12.5", ListV(<<"Tue", "mon">>), "n1"),
      Cand("wings", "10.00", ListV(<<"mon", "tue">>), "n1"),
      Cand("parma", NULL, NullV, NULL),
      Cand(NULL, "$10", StrV("Mon"), NULL) }

RECURSIVE SeqsUpTo(_, _)
SeqsUpTo(S, n) ==
    IF n = 0 THEN {<<>>}
    ELSE LET shorter == SeqsUpTo(S, n - 1) IN
         shorter \cup {Append(q, x) : q \in shorter, x \in S}

CandidateLists == SeqsUpTo(Candidates, MaxCands)

\* str(price).replace("$", "").replace(",", "").strip()
price_str(p) ==
    CASE p = "$10" -> "10"
      [] p = NULL -> "None"
      [] OTHER -> p

\* Decimal(price_str).quantize(Decimal("0.01")) in cents; NoPrice where
\* Decimal raises and the except clause sets None
DecimalCents(t) ==
    CASE t = "10" -> 1000
      [] t = "10.00" -> 1000
      [] t = "12.5" -> 1250
      [] OTHER -> NoPrice

normalize_price(p) ==
    IF p = NULL THEN NoPrice
    ELSE IF price_str(p) = "" \/ Lower(price_str(p)) \in {"null", "none", "n/a", ""}
         THEN NoPrice
         ELSE DecimalCents(price_str(p))

normalize_days(v) ==
    IF v.t = "null" THEN <<>>
    ELSE IF v.t = "str" THEN <<Lower(v.s)>>
    ELSE [i \in DOMAIN v.l |-> Lower(v.l[i])]

normalize_deal_data(deal, restaurant_id) ==
    [restaurant_id |-> restaurant_id,
     dish |-> IF deal.dish # NULL THEN Strip(deal.dish) ELSE NULL,
     price |-> normalize_price(deal.price),
     day_of_week |-> normalize_days(deal.day_of_week),
     notes |-> deal.notes]

deals_match(scraped_deal, existing_deal) ==
    /\ Lower(scraped_deal.dish) = Lower(existing_deal.dish)
    /\ Range(scraped_deal.day_of_week)
         = {Lower(d) : d \in Range(existing_deal.day_of_week)}

deal_needs_update(scraped_deal, existing_deal) ==
    scraped_deal.price # existing_deal.price

\* the items of a table in the order the restaurant-id-index returns them:
\* by created_at, that is in the order the uuids were handed out
RECURSIVE SortedSeq(_)
SortedSeq(S) ==
    IF S = {} THEN <<>>
    ELSE LET m == CHOOSE x \in S : \A y \in S : x <= y IN
         <<m>> \o SortedSeq(S \ {m})

\* a mutant of get_deals_by_restaurant_id: the FilterExpression on
\* is_deleted is missing
get_deals_by_restaurant_id_unfiltered(table, restaurant_id, query_ok) ==
    IF ~query_ok THEN <<>>
    ELSE LET ids == SortedSeq({u \in DOMAIN table :
                                  table[u].restaurant_id = restaurant_id}) IN
         [i \in DOMAIN ids |-> table[ids[i]]]

\* a mutant of get_deals_by_restaurant_id: the query is not keyed on the
\* restaurant
get_deals_by_restaurant_id_allRestaurants(table, restaurant_id, query_ok) ==
    IF ~query_ok THEN <<>>
    ELSE LET ids == SortedSeq({u \in DOMAIN table : ~table[u].is_deleted}) IN
         [i \in DOMAIN ids |-> table[ids[i]]]

\* a mutant of get_deals_by_restaurant_id: the items are returned whether
\* or not the query failed
get_deals_by_restaurant_id_ignoreFailure(table, restaurant_id, query_ok) ==
    LET ids == SortedSeq({u \in DOMAIN table :
                             /\ table[u].restaurant_id = restaurant_id
                             /\ ~table[u].is_deleted}) IN
    [i \in DOMAIN ids |-> table[ids[i]]]

\* query_ok = FALSE is the ClientError branch, which returns []
get_deals_by_restaurant_id(table, restaurant_id, query_ok) ==
    IF ~query_ok THEN <<>>
    ELSE LET ids == SortedSeq({u \in DOMAIN table :
                                  /\ table[u].restaurant_id = restaurant_id
                                  /\ ~table[u].is_deleted}) IN
         [i \in DOMAIN ids |-> table[ids[i]]]

\* Python truthiness of deal.get("dish")
HasDish(deal) == deal.dish # NULL /\ deal.dish # ""

Indices(q) == [i \in DOMAIN q |-> i]

\* the index of the first existing deal that matches, 0 when none does
first_match(scraped_deal, existing_deals) ==
    IF \E j \in DOMAIN existing_deals : deals_match(scraped_deal, existing_deals[j])
    THEN CHOOSE j \in DOMAIN existing_deals :
            /\ deals_match(scraped_deal, existing_deals[j])
            /\ \A k \in 1..(j - 1) : ~deals_match(scraped_deal, existing_deals[k])
    ELSE 0

\* a mutant of updated_deal: the scraped deal is written over the existing one
updated_deal_fromScraped(existing_deal, scraped_deal, ts) ==
    [existing_deal EXCEPT !.dish = scraped_deal.dish,
                          !.day_of_week = scraped_deal.day_of_week,
                          !.price = scraped_deal.price,
                          !.updated_at = ts]

updated_deal(existing_deal, scraped_deal, ts) ==
    [existing_deal EXCEPT !.price = scraped_deal.price, !.updated_at = ts]

new_deal(scraped_deal, uuid, ts) ==
    [uuid |-> uuid,
     restaurant_id |-> scraped_deal.restaurant_id,
     dish |-> scraped_deal.dish,
     price |-> scraped_deal.price,
     day_of_week |-> scraped_deal.day_of_week,
     notes |-> scraped_deal.notes,
     created_at |-> ts,
     updated_at |-> NoTime,
     is_deleted |-> FALSE,
     deleted_at |-> NoTime]

\* a mutant of obsolete_deal: deleted_at is left as it was
obsolete_deal_keepDeletedAt(existing_deal, ts) ==
    [existing_deal EXCEPT !.is_deleted = TRUE, !.updated_at = ts]

obsolete_deal(existing_deal, ts) ==
    [existing_deal EXCEPT !.is_deleted = TRUE, !.deleted_at = ts, !.updated_at = ts]

\* what save_deals computes before it writes: the three lists of items
save_deals(deals_arg, restaurant_id, table, query_ok, uuid0, ts) ==
    IF deals_arg = <<>>
    THEN [early |-> TRUE, new_deals |-> <<>>, updated_deals |-> <<>>,
          obsolete_deals |-> <<>>]
    ELSE
    LET existing_deals == get_deals_by_restaurant_id(table, restaurant_id, query_ok)
        with_dish == SelectSeq(deals_arg, HasDish)
        normalized_deals ==
            [i \in DOMAIN with_dish |-> normalize_deal_data(with_dish[i], restaurant_id)]
        match(i) == first_match(normalized_deals[i], existing_deals)
        new_idx == SelectSeq(Indices(normalized_deals), LAMBDA i : match(i) = 0)
        upd_idx == SelectSeq(Indices(normalized_deals),
                             LAMBDA i : /\ match(i) # 0
                                        /\ deal_needs_update(normalized_deals[i],
                                                             existing_deals[match(i)]))
        matched_existing_ids ==
            {existing_deals[match(i)].uuid :
                i \in {k \in DOMAIN normalized_deals : match(k) # 0}}
        obs_idx == SelectSeq(Indices(existing_deals),
                             LAMBDA j : existing_deals[j].uuid \notin matched_existing_ids)
    IN [early |-> FALSE,
        new_deals |->
            [k \in DOMAIN new_idx |->
                new_deal(normalized_deals[new_idx[k]], uuid0 + k - 1, ts)],
        updated_deals |->
            [k \in DOMAIN upd_idx |->
                updated_deal(existing_deals[match(upd_idx[k])],
                             normalized_deals[upd_idx[k]], ts)],
        obsolete_deals |->
            [k \in DOMAIN obs_idx |-> obsolete_deal(existing_deals[obs_idx[k]], ts)]]

\* batch.put_item for each item in turn: a later put of a key replaces an
\* earlier one.  (A store that rejects a batch is write_ok = FALSE.)
batch_put(table, items) ==
    [u \in DOMAIN table \cup {items[i].uuid : i \in DOMAIN items} |->
        IF \E i \in DOMAIN items : items[i].uuid = u
        THEN LET i == CHOOSE i \in DOMAIN items :
                        /\ items[i].uuid = u
                        /\ \A j \in DOMAIN items : items[j].uuid = u => j <= i
             IN items[i]
        ELSE table[u]]

---------------------------------------------------------------------------
(* dealAPI/app/repositories/deal_repository.py: DealRepository *)

\* a DealUpdate: every field is optional
DealUpdates ==
    { [dish |-> NULL, price |-> 1500, day_of_week |-> NullV, notes |-> NULL],
      [dish |-> "parma", price |-> NoPrice, day_of_week |-> ListV(<<"friday">>),
       notes |-> "n2"] }

NoUpdate == [dish |-> NULL, price |-> NoPrice, day_of_week |-> NullV, notes |-> NULL]

\* a mutant of update: a soft-deleted deal is updated like any other
update_noDeletedCheck(table, deal_uuid, deal_update, ts) ==
    IF deal_uuid \notin DOMAIN table THEN table
    ELSE [table EXCEPT ![deal_uuid] =
            [@ EXCEPT
                !.dish = IF deal_update.dish # NULL THEN deal_update.dish ELSE @,
                !.price = IF deal_update.price # NoPrice THEN deal_update.price ELSE @,
                !.day_of_week = IF deal_update.day_of_week.t # "null"
                                THEN deal_update.day_of_week.l ELSE @,
                !.notes = IF deal_update.notes # NULL THEN deal_update.notes ELSE @,
                !.updated_at = ts]]

\* DealRepository.update: the table after the call
update(table, deal_uuid, deal_update, ts) ==
    IF deal_uuid \notin DOMAIN table THEN table
    ELSE IF table[deal_uuid].is_deleted THEN table
    ELSE [table EXCEPT ![deal_uuid] =
            [@ EXCEPT
                !.dish = IF deal_update.dish # NULL THEN deal_update.dish ELSE @,
                !.price = IF deal_update.price # NoPrice THEN deal_update.price ELSE @,
                !.day_of_week = IF deal_update.day_of_week.t # "null"
                                THEN deal_update.day_of_week.l ELSE @,
                !.notes = IF deal_update.notes # NULL THEN deal_update.notes ELSE @,
                !.updated_at = ts]]

\* a mutant of soft_delete: the item is removed from the table
soft_delete_hard(table, deal_uuid, ts) ==
    [u \in DOMAIN table \ {deal_uuid} |-> table[u]]

\* DealRepository.soft_delete: the table after the call
soft_delete(table, deal_uuid, ts) ==
    IF deal_uuid \notin DOMAIN table THEN table
    ELSE IF table[deal_uuid].is_deleted THEN table
    ELSE [table EXCEPT ![deal_uuid] =
            [@ EXCEPT !.is_deleted = TRUE, !.deleted_at = ts, !.updated_at = ts]]

---------------------------------------------------------------------------
(* dealscraper/scrape_deals.py: DealScraper.find_deal_details *)

\* a JSON value: an object with the keys of a deal, a list of such objects,
\* or a string
DictJ(d) == [k |-> "dict", d |-> d, l |-> <<>>, s |-> ""]
ListJ(l) == [k |-> "list", d |-> Cand(NULL, NULL, NullV, NULL), l |-> l, s |-> ""]
StrJ(s) == [k |-> "str", d |-> Cand(NULL, NULL, NullV, NULL), l |-> <<>>, s |-> s]

\* {"dish": None, "price": None, "day_of_week": None}
NullDeal == Cand(NULL, NULL, NullV, NULL)

\* what a model can answer
Responses ==
    {"Sorry, I see no deal.",
     "{dish: wings, price: $10, day_of_week: [mon, tue]}",
     "{dish: parma, price: null, day_of_week: null}",
     "{dish: null, price: null, day_of_week: null}",
     "{dish: wings, price: $10}",
     "{dish:   , price: $10, day_of_week: [mon, tue]}",
     "[{dish: wings, ...}, {dish: parma, ...}]"}

\* the answers that json.loads rejects with JSONDecodeError
NotJson == {"Sorry, I see no deal."}

\* json.loads on the answers of the model
json_loads(text) ==
    CASE text = "{dish: wings, price: $10, day_of_week: [mon, tue]}"
            -> DictJ(Cand("wings", "$10", ListV(<<"mon", "tue">>), NULL))
      [] text = "{dish: parma, price: null, day_of_week: null}"
            -> DictJ(Cand("parma", NULL, NullV, NULL))
      [] text = "{dish: wings, price: $10}"
            -> DictJ(Cand("wings", "$10", MissingV, NULL))
      [] text = "{dish:   , price: $10, day_of_week: [mon, tue]}"
            -> DictJ(Cand("  ", "$10", ListV(<<"mon", "tue">>), NULL))
      [] text = "[{dish: wings, ...}, {dish: parma, ...}]"
            -> ListJ(<<Cand("wings", "$10", ListV(<<"mon", "tue">>), NULL),
                       Cand("parma", NULL, NullV, NULL)>>)
      [] OTHER -> DictJ(NullDeal)

extract_deal_details_from_text(text) ==
    IF text \in NotJson THEN DictJ(NullDeal) ELSE json_loads(text)

\* [raised, called, value]: httpx.get may raise; a content type outside the
\* allow list gives "n/a" before the vision model is asked (called = FALSE);
\* an answer that is not JSON gives the null deal
extract_deal_details_from_image(fetch_ok, image_content_type, text) ==
    IF ~fetch_ok THEN [raised |-> TRUE, called |-> FALSE, value |-> StrJ("")]
    ELSE IF image_content_type \notin {"image/png", "image/jpeg", "image/gif"}
    THEN [raised |-> FALSE, called |-> FALSE, value |-> StrJ("n/a")]
    ELSE IF text \in NotJson
    THEN [raised |-> FALSE, called |-> TRUE, value |-> DictJ(NullDeal)]
    ELSE [raised |-> FALSE, called |-> TRUE, value |-> json_loads(text)]

\* any([val is None for val in deal_info.values()]) on an object with the
\* keys dish, price and day_of_week
any_none(d) == d.dish = NULL \/ d.price = NULL \/ d.day_of_week.t = "null"

\* image_link and image_link.startswith(("https", "http"))
is_absolute(image_link) == image_link \in {"https://pub.example/menu.png"}

NotExtracted ==
    [stage |-> "input", raised |-> FALSE, deal_info |-> StrJ(""),
     link_type |-> "text", image_link |-> NULL,
     image_stage |-> FALSE, vision_called |-> FALSE]

\* find_deal_details on a page whose navigation succeeded: [raised,
\* deal_info, link_type, image_link] of self.deals[link]; image_stage says
\* that __extract_deal_details_from_image was entered, vision_called that it
\* sent the image to the vision model
find_deal_details(p) ==
    LET deal_info == extract_deal_details_from_text(p.text_response) IN
    IF deal_info.k # "dict"
    THEN [NotExtracted EXCEPT !.stage = "done", !.raised = TRUE]
    ELSE IF any_none(deal_info.d) /\ is_absolute(p.image_link)
    THEN LET r == extract_deal_details_from_image(p.fetch_ok, p.image_content_type,
                                                   p.image_response) IN
         IF r.raised
         THEN [NotExtracted EXCEPT !.stage = "done", !.raised = TRUE,
                                   !.link_type = "image",
                                   !.image_link = p.image_link,
                                   !.image_stage = TRUE]
         ELSE [NotExtracted EXCEPT !.stage = "done", !.deal_info = r.value,
                                   !.link_type = "image",
                                   !.image_link = p.image_link,
                                   !.image_stage = TRUE,
                                   !.vision_called = r.called]
    ELSE [NotExtracted EXCEPT !.stage = "done", !.deal_info = deal_info]

\* Python truthiness of a deal_info: `if deal_info:`
deal_info_truthy(deal_info) ==
    CASE deal_info.k = "dict" -> TRUE
      [] deal_info.k = "list" -> deal_info.l # <<>>
      [] OTHER -> deal_info.s # ""

\* the body of the loop of find_deals over self.deals.values() for one
\* page: what it appends to deals_to_save, or the AttributeError of
\* deal_info.get on a str
deals_to_save_of(deal_info) ==
    IF ~deal_info_truthy(deal_info) THEN [raised |-> FALSE, deals |-> <<>>]
    ELSE IF deal_info.k = "list"
    THEN [raised |-> FALSE, deals |-> SelectSeq(deal_info.l, HasDish)]
    ELSE IF deal_info.k = "dict"
    THEN [raised |-> FALSE,
          deals |-> IF HasDish(deal_info.d) THEN <<deal_info.d>> ELSE <<>>]
    ELSE [raised |-> TRUE, deals |-> <<>>]

\* the loop of find_deals that builds deals_to_save from the pages' results
RECURSIVE collect_deals(_)
collect_deals(results) ==
    IF results = <<>> THEN [raised |-> FALSE, deals |-> <<>>]
    ELSE LET head == deals_to_save_of(results[1].deal_info)
             rest == collect_deals(Tail(results))
         IN IF head.raised \/ rest.raised THEN [raised |-> TRUE, deals |-> <<>>]
            ELSE [raised |-> FALSE, deals |-> head.deals \o rest.deals]

---------------------------------------------------------------------------
(* dealAPI/app/services/restaurant_service.py: RestaurantService open-now *)

\* the day names of strftime("%A"), Monday first
WeekDays ==
    <<"Monday", "Tuesday", "Wednesday", "Thursday", "Friday", "Saturday", "Sunday">>

day_abbrev ==
    [d \in Range(WeekDays) |->
        CASE d = "Monday" -> {"mon", "monday"}
          [] d = "Tuesday" -> {"tue", "tues", "tuesday"}
          [] d = "Wednesday" -> {"wed", "wednesday"}
          [] d = "Thursday" -> {"thu", "thurs", "thursday"}
          [] d = "Friday" -> {"fri", "friday"}
          [] d = "Saturday" -> {"sat", "saturday"}
          [] OTHER -> {"sun", "sunday"}]

\* Monday = 0 ... Sunday = 6
day_numbers ==
    [k \in UNION {day_abbrev[d] : d \in Range(WeekDays)} |->
        (CHOOSE i \in DOMAIN WeekDays : k \in day_abbrev[WeekDays[i]]) - 1]

\* current_day.lower()
day_lower(current_day) ==
    CHOOSE k \in day_abbrev[current_day] : \A j \in day_abbrev[current_day] : Len(j) <= Len(k)

\* the day names and abbreviations as opening hours write them, each with
\* its .lower()
DayTokenLower ==
    [Monday |-> "monday", Mon |-> "mon", Tuesday |-> "tuesday", Tue |-> "tue",
     Tues |-> "tues", Wednesday |-> "wednesday", Wed |-> "wed",
     Thursday |-> "thursday", Thu |-> "thu", Thurs |-> "thurs",
     Friday |-> "friday", Fri |-> "fri", Saturday |-> "saturday", Sat |-> "sat",
     Sunday |-> "sunday", Sun |-> "sun", mon |-> "mon", FRI |-> "fri"]

DayTokens == DOMAIN DayTokenLower

\* the day patterns of the model, single days and ranges, each with what
\* day_pattern.lower().split("-") gives for it
DayPatternTable ==
    {<<x, <<DayTokenLower[x]>>>> : x \in DayTokens}
    \cup {<<x \o "-" \o y, <<DayTokenLower[x], DayTokenLower[y]>>>> :
             x \in DayTokens, y \in DayTokens}

DayPatterns == {e[1] : e \in DayPatternTable}

\* day_pattern.lower().split("-"), each part stripped; nothing for a text
\* that is no day pattern
day_pattern_parts(day_pattern) ==
    IF day_pattern \in DayPatterns
    THEN (CHOOSE e \in DayPatternTable : e[1] = day_pattern)[2]
    ELSE <<>>

\* the day names and abbreviations that are substrings of a part: those of
\* the same day that are no longer than it (mon, monday; tue, tues, tuesday)
substrings_of(part) ==
    IF part \in DOMAIN day_numbers
    THEN {k \in DOMAIN day_numbers :
             day_numbers[k] = day_numbers[part] /\ Len(k) <= Len(part)}
    ELSE {part}

\* `token in day_pattern_lower`
in_pattern(token, day_pattern) ==
    \E i \in DOMAIN day_pattern_parts(day_pattern) :
        token \in substrings_of(day_pattern_parts(day_pattern)[i])

\* a mutant of day_matches: a range is tested as start <= current <= end
\* whatever the order of its ends
day_matches_noWrap(current_day, day_pattern) ==
    LET parts == day_pattern_parts(day_pattern) IN
    \/ in_pattern(day_lower(current_day), day_pattern)
    \/ \E abbrev \in day_abbrev[current_day] : in_pattern(abbrev, day_pattern)
    \/ /\ Len(parts) = 2
       /\ parts[1] \in DOMAIN day_numbers /\ parts[2] \in DOMAIN day_numbers
       /\ LET current_num == day_numbers[day_lower(current_day)]
              start_num == day_numbers[parts[1]]
              end_num == day_numbers[parts[2]]
          IN start_num <= current_num /\ current_num <= end_num

day_matches(current_day, day_pattern) ==
    LET parts == day_pattern_parts(day_pattern) IN
    \/ in_pattern(day_lower(current_day), day_pattern)
    \/ \E abbrev \in day_abbrev[current_day] : in_pattern(abbrev, day_pattern)
    \/ /\ Len(parts) = 2
       /\ parts[1] \in DOMAIN day_numbers /\ parts[2] \in DOMAIN day_numbers
       /\ LET current_num == day_numbers[day_lower(current_day)]
              start_num == day_numbers[parts[1]]
              end_num == day_numbers[parts[2]]
          IN IF start_num <= end_num
             THEN start_num <= current_num /\ current_num <= end_num
             ELSE current_num >= start_num \/ current_num <= end_num

\* re.search(time_pattern, time_range): the six groups, hours and minutes
\* as numbers (a missing minute group is 0)
time_pattern_search(time_range) ==
    CASE time_range = "10:00 PM - 2:00 AM" ->
            [ok |-> TRUE, h1 |-> 10, m1 |-> 0, p1 |-> "PM", h2 |-> 2, m2 |-> 0, p2 |-> "AM"]
      [] time_range = "9:00 AM - 5:00 PM" ->
            [ok |-> TRUE, h1 |-> 9, m1 |-> 0, p1 |-> "AM", h2 |-> 5, m2 |-> 0, p2 |-> "PM"]
      [] time_range = "9AM-5PM" ->
            [ok |-> TRUE, h1 |-> 9, m1 |-> 0, p1 |-> "AM", h2 |-> 5, m2 |-> 0, p2 |-> "PM"]
      [] time_range = "6:00 PM - 12:30 AM" ->
            [ok |-> TRUE, h1 |-> 6, m1 |-> 0, p1 |-> "PM", h2 |-> 12, m2 |-> 30, p2 |-> "AM"]
      [] OTHER ->
            [ok |-> FALSE, h1 |-> 0, m1 |-> 0, p1 |-> "", h2 |-> 0, m2 |-> 0, p2 |-> ""]

\* the conversion to the 24-hour clock
to_24h(hour, period) ==
    IF period = "PM" /\ hour # 12 THEN hour + 12
    ELSE IF period = "AM" /\ hour = 12 THEN 0
    ELSE hour

\* times are minutes after midnight; time(hour, minute) raises for an hour
\* past 23, which the except clause turns into False
is_time_in_range(current_time, time_range) ==
    LET m == time_pattern_search(time_range)
        start_time == to_24h(m.h1, m.p1) * 60 + m.m1
        end_time == to_24h(m.h2, m.p2) * 60 + m.m2
    IN /\ m.ok
       /\ to_24h(m.h1, m.p1) \in 0..23 /\ to_24h(m.h2, m.p2) \in 0..23
       /\ IF start_time <= end_time
          THEN start_time <= current_time /\ current_time <= end_time
          ELSE current_time >= start_time \/ current_time <= end_time

\* the lines of open_hours in the model
HoursEntries ==
    {"Friday: 10:00 PM - 2:00 AM", "Saturday: 9:00 AM - 5:00 PM",
     "Mon-Fri: 9AM-5PM", "Fri-Mon: 6:00 PM - 12:30 AM", "Open 24 hours",
     "Sunday: Closed", "By appointment", ""}

\* "24 hours" in hours_entry.lower() or "24/7" in hours_entry.lower()
is_24_hours(hours_entry) == hours_entry \in {"Open 24 hours"}

\* "closed" in hours_entry.lower()
is_closed(hours_entry) == hours_entry \in {"Sunday: Closed"}

\* re.match(day_time_pattern, hours_entry): the two groups, stripped
day_time_match(hours_entry) ==
    CASE hours_entry = "Friday: 10:00 PM - 2:00 AM" ->
            [ok |-> TRUE, day_part |-> "Friday", time_part |-> "10:00 PM - 2:00 AM"]
      [] hours_entry = "Saturday: 9:00 AM - 5:00 PM" ->
            [ok |-> TRUE, day_part |-> "Saturday", time_part |-> "9:00 AM - 5:00 PM"]
      [] hours_entry = "Mon-Fri: 9AM-5PM" ->
            [ok |-> TRUE, day_part |-> "Mon-Fri", time_part |-> "9AM-5PM"]
      [] hours_entry = "Fri-Mon: 6:00 PM - 12:30 AM" ->
            [ok |-> TRUE, day_part |-> "Fri-Mon", time_part |-> "6:00 PM - 12:30 AM"]
      [] hours_entry = "Sunday: Closed" ->
            [ok |-> TRUE, day_part |-> "Sunday", time_part |-> "Closed"]
      [] OTHER -> [ok |-> FALSE, day_part |-> "", time_part |-> ""]

\* the timezone strings of the model; pytz knows one of them
Timezones == {NULL, "", "Australia/Sydney", "Mars/Olympus"}

\* a mutant of get_local_time_from_timezone: without a timezone the wall
\* clock is read as it is
get_local_time_from_timezone_utc(timezone_str, clock) ==
    IF timezone_str \in {NULL, ""} THEN [ok |-> TRUE, day |-> clock.day, time |-> clock.time]
    ELSE IF timezone_str # "Australia/Sydney"
    THEN [ok |-> FALSE, day |-> "", time |-> 0]
    ELSE [ok |-> TRUE, day |-> clock.day, time |-> clock.time]

\* None without a timezone or with one pytz rejects, else the local time
\* (clock is the wall clock read in that timezone)
get_local_time_from_timezone(timezone_str, clock) ==
    IF timezone_str \in {NULL, ""} THEN [ok |-> FALSE, day |-> "", time |-> 0]
    ELSE IF timezone_str # "Australia/Sydney"
    THEN [ok |-> FALSE, day |-> "", time |-> 0]
    ELSE [ok |-> TRUE, day |-> clock.day, time |-> clock.time]

\* the loop over open_hours: the first line that decides wins
RECURSIVE open_hours_loop(_, _, _)
open_hours_loop(open_hours, current_day, current_time) ==
    IF open_hours = <<>> THEN FALSE
    ELSE LET hours_entry == Head(open_hours)
             rest == open_hours_loop(Tail(open_hours), current_day, current_time)
             match == day_time_match(hours_entry)
         IN IF hours_entry = "" THEN rest
            ELSE IF is_24_hours(hours_entry) THEN TRUE
            ELSE IF is_closed(hours_entry) THEN rest
            ELSE IF ~match.ok THEN rest
            ELSE IF /\ day_matches(current_day, match.day_part)
                    /\ is_time_in_range(current_time, match.time_part)
                 THEN TRUE
                 ELSE rest

is_restaurant_open_now(restaurant, clock) ==
    IF restaurant.open_hours = <<>> THEN FALSE
    ELSE LET local_time == get_local_time_from_timezone(restaurant.timezone, clock) IN
         IF ~local_time.ok THEN FALSE
         ELSE open_hours_loop(restaurant.open_hours, local_time.day, local_time.time)

---------------------------------------------------------------------------
(* dealAPI: RestaurantService upserts and RestaurantRepository *)

\* where Google Maps puts a venue: (latitude, longitude) of Sydney, of
\* Perth, and of a point timezonefinder knows no timezone for
Places == {<<-34, 151>>, <<-32, 116>>, <<0, 0>>}

\* tf.timezone_at(lat, lng), None when it finds nothing
calculate_timezone(latitude, longitude) ==
    CASE <<latitude, longitude>> = <<-34, 151>> -> "Australia/Sydney"
      [] <<latitude, longitude>> = <<-32, 116>> -> "Australia/Perth"
      [] OTHER -> NULL

\* GoogleMapsRestaurantData
GmapsData == [gmaps_id : {"g1", "g2"}, name : {"Pub", "Pub & Grill"}, place : Places]

\* _gmaps_to_restaurant_create and to_restaurant_create: the timezone is
\* calculated from the coordinates
gmaps_to_restaurant_create(gmaps_data) ==
    [gmaps_id |-> gmaps_data.gmaps_id, name |-> gmaps_data.name,
     place |-> gmaps_data.place,
     timezone |-> calculate_timezone(gmaps_data.place[1], gmaps_data.place[2])]

\* _gmaps_to_restaurant_update: no timezone
gmaps_to_restaurant_update(gmaps_data) ==
    [gmaps_id |-> gmaps_data.gmaps_id, name |-> gmaps_data.name,
     place |-> gmaps_data.place]

\* a RestaurantCreate as a caller of the legacy endpoint builds it: with
\* to_restaurant_create, or with no timezone (the field is optional)
RestaurantCreates ==
    {gmaps_to_restaurant_create(g) : g \in GmapsData}
    \cup {[gmaps_to_restaurant_create(g) EXCEPT !.timezone = NULL] : g \in GmapsData}

\* the uuid of the first restaurant with this gmaps_id that is not
\* soft-deleted, 0 when there is none
get_by_gmaps_id(table, gmaps_id) ==
    LET found == {u \in DOMAIN table :
                    table[u].gmaps_id = gmaps_id /\ ~table[u].is_deleted}
    IN IF found = {} THEN 0 ELSE CHOOSE u \in found : \A v \in found : u <= v

\* RestaurantRepository.create: the table after the call
restaurant_create(table, restaurant_data, uuid, ts) ==
    [u \in DOMAIN table \cup {uuid} |->
        IF u = uuid
        THEN [uuid |-> uuid, gmaps_id |-> restaurant_data.gmaps_id,
              name |-> restaurant_data.name, place |-> restaurant_data.place,
              timezone |-> restaurant_data.timezone,
              created_at |-> ts, updated_at |-> ts, is_deleted |-> FALSE,
              deleted_at |-> NoTime]
        ELSE table[u]]

\* RestaurantRepository.update with a RestaurantCreate: the timezone is
\* assigned with every other field
restaurant_update(table, uuid, restaurant_data, ts) ==
    IF uuid \notin DOMAIN table THEN table
    ELSE IF table[uuid].is_deleted THEN table
    ELSE [table EXCEPT ![uuid] =
            [@ EXCEPT !.gmaps_id = restaurant_data.gmaps_id,
                      !.name = restaurant_data.name,
                      !.place = restaurant_data.place,
                      !.timezone = restaurant_data.timezone,
                      !.updated_at = ts]]

\* RestaurantRepository.update_with_restaurant_update: the timezone is left
update_with_restaurant_update(table, uuid, restaurant_data, ts) ==
    IF uuid \notin DOMAIN table THEN table
    ELSE IF table[uuid].is_deleted THEN table
    ELSE [table EXCEPT ![uuid] =
            [@ EXCEPT !.gmaps_id = restaurant_data.gmaps_id,
                      !.name = restaurant_data.name,
                      !.place = restaurant_data.place,
                      !.updated_at = ts]]

\* RestaurantRepository.upsert
upsert(table, restaurant_data, uuid, ts) ==
    LET existing_restaurant == get_by_gmaps_id(table, restaurant_data.gmaps_id) IN
    IF existing_restaurant # 0
    THEN restaurant_update(table, existing_restaurant, restaurant_data, ts)
    ELSE restaurant_create(table, restaurant_data, uuid, ts)

\* RestaurantService.upsert_restaurant_from_gmaps
upsert_restaurant_from_gmaps(table, gmaps_data, uuid, ts) ==
    LET existing_restaurant == get_by_gmaps_id(table, gmaps_data.gmaps_id) IN
    IF existing_restaurant # 0
    THEN update_with_restaurant_update(table, existing_restaurant,
                                       gmaps_to_restaurant_update(gmaps_data), ts)
    ELSE restaurant_create(table, gmaps_to_restaurant_create(gmaps_data), uuid, ts)

\* RestaurantRepository.delete: RestaurantModel.soft_delete
restaurant_delete(table, uuid, ts) ==
    IF uuid \notin DOMAIN table THEN table
    ELSE [table EXCEPT ![uuid] =
            [@ EXCEPT !.is_deleted = TRUE, !.deleted_at = ts, !.updated_at = ts]]

---------------------------------------------------------------------------
(* dealscraper/scrape_deals.py: DealScraper.find_deals_page, second pass *)

\* link.text_content() of the links of the model
LinkTexts ==
    {"Tuesday Rump Night", "", "Steakhouse Specials", " Menu ",
     "Friday specials on Facebook", "Wings"}

\* link.get_attribute("href"), None when the element has no href
LinkHrefs ==
    {NULL, "", "/whats-on/rump-night", "/uploads/2024/02/Wednesday.jpg",
     "/uploads/wings.png", "/uploads/menu.png", "/uploads/Pizza.JPG",
     "/contact", "https://facebook.com/pub/friday.jpg", "mailto:pub@pub.example"}

\* any(keyword in s for keyword in DEAL_SPECIFIC_KEYWORDS), on a lowercased
\* text or href of the model
has_deal_specific_keyword(s) ==
    s \in {"tuesday rump night", "steakhouse specials",
           "friday specials on facebook", "wings",
           "/uploads/2024/02/wednesday.jpg", "/uploads/wings.png",
           "/uploads/pizza.jpg", "https://facebook.com/pub/friday.jpg"}

\* any(keyword in text for keyword in DEAL_SPECIFIC_BLACKLIST)
has_blacklisted(text) == text \in {"steakhouse specials"}

\* href.endswith(tuple(IMG_FILE_EXTENSIONS)): the suffix as it is written
ends_with_image_extension(href) ==
    href \in {"/uploads/2024/02/Wednesday.jpg", "/uploads/wings.png",
              "/uploads/menu.png", "https://facebook.com/pub/friday.jpg"}

\* any(ext in href for ext in ["facebook.com", "instagram.com",
\* "twitter.com", "mailto"])
is_social(href) ==
    href \in {"https://facebook.com/pub/friday.jpg", "mailto:pub@pub.example"}

NotRecorded ==
    [stage |-> "input", recorded |-> FALSE, link_type |-> "", link_text |-> "",
     image_link |-> NULL]

\* a mutant of second_pass_link: the branch for image links whose text has
\* no keyword is missing
second_pass_link_textOnly(link) ==
    LET text == Strip(Lower(link.text))
        href == link.href
    IN IF href = NULL THEN [NotRecorded EXCEPT !.stage = "done"]
       ELSE LET link_type == IF ends_with_image_extension(href) THEN "image" ELSE "text" IN
            IF href = "" \/ is_social(href) THEN [NotRecorded EXCEPT !.stage = "done"]
            ELSE IF has_deal_specific_keyword(text) /\ ~has_blacklisted(text)
            THEN [NotRecorded EXCEPT !.stage = "done", !.recorded = TRUE,
                                     !.link_type = link_type, !.link_text = text]
            ELSE [NotRecorded EXCEPT !.stage = "done"]

\* the body of the second pass's loop for one link: what self.deals[href]
\* is afterwards.  href None makes href.endswith raise, and the except
\* clause goes on to the next link.
second_pass_link(link) ==
    LET text == Strip(Lower(link.text))
        href == link.href
    IN IF href = NULL THEN [NotRecorded EXCEPT !.stage = "done"]
       ELSE LET link_type == IF ends_with_image_extension(href) THEN "image" ELSE "text" IN
            IF href = "" \/ is_social(href) THEN [NotRecorded EXCEPT !.stage = "done"]
            ELSE IF has_deal_specific_keyword(text) /\ ~has_blacklisted(text)
            THEN [NotRecorded EXCEPT !.stage = "done", !.recorded = TRUE,
                                     !.link_type = link_type, !.link_text = text]
            ELSE IF /\ link_type = "image"
                    /\ has_deal_specific_keyword(Lower(href))
                    /\ ~has_blacklisted(text)
            THEN [NotRecorded EXCEPT !.stage = "done", !.recorded = TRUE,
                                     !.link_type = link_type, !.link_text = text,
                                     !.image_link = href]
            ELSE [NotRecorded EXCEPT !.stage = "done"]

---------------------------------------------------------------------------
(* The operations *)

NoPage ==
    [text_response |-> "", image_link |-> NULL, fetch_ok |-> TRUE,
     image_content_type |-> "", image_response |-> ""]

NoHours ==
    [open_hours |-> <<>>, timezone |-> NULL, day |-> "Monday", time |-> 0]

NotEvaluated == [stage |-> "input", open |-> FALSE]

\* the handler invocations that can run at the same time
Procs == {"p1", "p2"}

NoPass == [pc |-> "idle", restaurant_id |-> "", deals |-> <<>>, table |-> <<>>]

NoLink == [text |-> "", href |-> NULL]

NoVenue == [results |-> <<>>, handed |-> FALSE, deals_to_save |-> <<>>]

NoPattern == [current_day |-> "", day_pattern |-> "", stage |-> "idle", matches |-> FALSE]

NoOp ==
    [op |-> "none", restaurant_id |-> "", deals |-> <<>>, query_ok |-> TRUE,
     write_ok |-> TRUE, early |-> FALSE, raised |-> FALSE, new |-> 0,
     updated |-> 0, obsolete |-> 0, uuid |-> 0, deal_update |-> NoUpdate,
     status |-> 0]

\* a mutant of find_deals_raises: find_deals catches every exception
find_deals_raises_catchAll(goto_ok, save_raised) == FALSE

\* DealScraper.find_deals raises what find_deals_page and find_deal_details
\* raise (a navigation that times out or fails); what save_deals raises is
\* caught, logged and dropped
find_deals_raises(goto_ok, save_raised) == ~goto_ok

\* the statusCode of the dict that handler returns
handler(find_deals_raised) == IF find_deals_raised THEN 500 ELSE 200

\* dealscraper/scrape_deals.py, DealScraper.find_deals from "Save the deals
\* to DynamoDB" on: the page results with a dish are handed to save_deals,
\* which queries, computes the three lists and writes them in one batch; an
\* exception of save_deals is logged and swallowed, and handler returns the
\* result of a run in which find_deals did not raise.
FindDeals(restaurant_id, deal_infos, query_ok, write_ok) ==
    /\ now < MaxTime
    /\ \E r \in {save_deals(SelectSeq(deal_infos, HasDish), restaurant_id,
                             deals, query_ok, nextUuid, now + 1)} :
       LET items == r.new_deals \o r.updated_deals \o r.obsolete_deals
           raised == ~r.early /\ ~write_ok
       IN /\ nextUuid + Len(r.new_deals) - 1 <= MaxDeals
          /\ now' = now + 1
          /\ deals' = IF r.early \/ raised THEN deals ELSE batch_put(deals, items)
          /\ nextUuid' = nextUuid + Len(r.new_deals)
          /\ last' = [NoOp EXCEPT !.op = "find_deals",
                                  !.restaurant_id = restaurant_id,
                                  !.deals = deal_infos,
                                  !.query_ok = query_ok,
                                  !.write_ok = write_ok,
                                  !.early = r.early,
                                  !.raised = raised,
                                  !.new = Len(r.new_deals),
                                  !.updated = Len(r.updated_deals),
                                  !.obsolete = Len(r.obsolete_deals),
                                  !.status =
                                      handler(find_deals_raises(TRUE, raised))]
          /\ UNCHANGED <<dayVars, extractVars, hoursVars, restaurants, passes, linkVars, venue, pattern>>

\* handler when page.goto times out or fails in find_deals_page: the
\* exception leaves find_deals before any page is read and before save_deals
\* is reached, and handler returns the error result
FindDealsUnreachable(restaurant_id) ==
    /\ now < MaxTime
    /\ now' = now + 1
    /\ last' = [NoOp EXCEPT !.op = "find_deals_page",
                            !.restaurant_id = restaurant_id,
                            !.status = handler(find_deals_raises(FALSE, FALSE))]
    /\ UNCHANGED <<deals, nextUuid, dayVars, extractVars, hoursVars, restaurants, passes, linkVars, venue, pattern>>

\* dealscraper/scrape_deals.py, DealScraper.find_deals and handler on a
\* venue whose deals pages give the results `results`: a page on which
\* find_deal_details raised ends the run with the error result; otherwise
\* deals_to_save is built and handed to save_deals, and whatever that part
\* raises is logged and swallowed.
FindDealsVenue(restaurant_id, results, query_ok, write_ok) ==
    /\ now < MaxVenueRuns
    /\ now' = now + 1
    /\ IF \E i \in DOMAIN results : results[i].raised
       THEN /\ venue' = [NoVenue EXCEPT !.results = results]
            /\ last' = [NoOp EXCEPT !.op = "find_deals_venue",
                                    !.restaurant_id = restaurant_id,
                                    !.status = handler(find_deals_raises(FALSE, FALSE))]
            /\ UNCHANGED <<deals, nextUuid>>
       ELSE \E c \in {collect_deals(results)} :
            IF c.raised
            THEN /\ venue' = [NoVenue EXCEPT !.results = results]
                 /\ last' = [NoOp EXCEPT !.op = "find_deals_venue",
                                         !.restaurant_id = restaurant_id,
                                         !.raised = TRUE,
                                         !.status = handler(find_deals_raises(TRUE, TRUE))]
                 /\ UNCHANGED <<deals, nextUuid>>
            ELSE \E r \in {save_deals(c.deals, restaurant_id, deals, query_ok,
                                      nextUuid, now + 1)} :
                 LET items == r.new_deals \o r.updated_deals \o r.obsolete_deals
                     raised == ~r.early /\ ~write_ok
                 IN /\ nextUuid + Len(r.new_deals) - 1 <= MaxDeals
                    /\ venue' = [results |-> results, handed |-> TRUE,
                                 deals_to_save |-> c.deals]
                    /\ deals' = IF r.early \/ raised THEN deals
                                ELSE batch_put(deals, items)
                    /\ nextUuid' = nextUuid + Len(r.new_deals)
                    /\ last' = [NoOp EXCEPT !.op = "find_deals_venue",
                                            !.restaurant_id = restaurant_id,
                                            !.deals = c.deals,
                                            !.query_ok = query_ok,
                                            !.write_ok = write_ok,
                                            !.early = r.early,
                                            !.raised = raised,
                                            !.new = Len(r.new_deals),
                                            !.updated = Len(r.updated_deals),
                                            !.obsolete = Len(r.obsolete_deals),
                                            !.status =
                                                handler(find_deals_raises(TRUE, raised))]
    /\ UNCHANGED <<dayVars, extractVars, hoursVars, restaurants, passes, linkVars,
                   pattern>>

Update(deal_uuid, deal_update) ==
    /\ now < MaxTime
    /\ now' = now + 1
    /\ deals' = update(deals, deal_uuid, deal_update, now + 1)
    /\ last' = [NoOp EXCEPT !.op = "update", !.uuid = deal_uuid,
                            !.deal_update = deal_update]
    /\ UNCHANGED <<nextUuid, dayVars, extractVars, hoursVars, restaurants, passes, linkVars, venue, pattern>>

SoftDelete(deal_uuid) ==
    /\ now < MaxTime
    /\ now' = now + 1
    /\ deals' = soft_delete(deals, deal_uuid, now + 1)
    /\ last' = [NoOp EXCEPT !.op = "soft_delete", !.uuid = deal_uuid]
    /\ UNCHANGED <<nextUuid, dayVars, extractVars, hoursVars, restaurants, passes, linkVars, venue, pattern>>

Init ==
    /\ deals = <<>>
    /\ nextUuid = 1
    /\ now = 0
    /\ last = NoOp
    /\ dayIn = NullV
    /\ dayOut = <<>>
    /\ dayAgain = <<>>
    /\ dayStage = "idle"
    /\ pageIn = NoPage
    /\ pageOut = NotExtracted
    /\ hoursIn = NoHours
    /\ hoursOut = NotEvaluated
    /\ restaurants = <<>>
    /\ passes = [p \in Procs |-> NoPass]
    /\ linkIn = NoLink
    /\ linkOut = NotRecorded
    /\ venue = NoVenue
    /\ pattern = NoPattern

Next ==
    \/ \E restaurant_id \in Restaurants, deal_infos \in CandidateLists,
          query_ok \in BOOLEAN, write_ok \in BOOLEAN :
            FindDeals(restaurant_id, deal_infos, query_ok, write_ok)
    \/ \E restaurant_id \in Restaurants : FindDealsUnreachable(restaurant_id)
    \/ \E deal_uuid \in 1..MaxDeals, deal_update \in DealUpdates :
            Update(deal_uuid, deal_update)
    \/ \E deal_uuid \in 1..MaxDeals : SoftDelete(deal_uuid)

Spec == Init /\ [][Next]_vars

\* reconciliation passes only, one at a time, from the empty table
NextPasses ==
    \E restaurant_id \in Restaurants, deal_infos \in CandidateLists,
       query_ok \in BOOLEAN, write_ok \in BOOLEAN :
         FindDeals(restaurant_id, deal_infos, query_ok, write_ok)

SpecPasses == Init /\ [][NextPasses]_vars

---------------------------------------------------------------------------
(* The day-of-week normalizers as a machine of their own *)

DayStrings ==
    {"monday", "tuesday", "sunday", "mon", "Mon", " Tue ", "FRIDAY",
     "everyday", "Daily", "all", "garbage", ""}

\* the seven three-letter abbreviations, as a model answers "every day"
AllAbbreviations == <<"mon", "tue", "wed", "thu", "fri", "sat", "sun">>

DayInputs ==
    {NullV} \cup {StrV(x) : x \in DayStrings}
            \cup {ListV(l) : l \in SeqsUpTo(DayStrings, MaxDayList)}
            \cup {ListV(AllAbbreviations)}

InitDays ==
    /\ deals = <<>>
    /\ nextUuid = 1
    /\ now = 0
    /\ last = NoOp
    /\ dayIn \in DayInputs
    /\ dayOut = <<>>
    /\ dayAgain = <<>>
    /\ dayStage = "input"
    /\ pageIn = NoPage
    /\ pageOut = NotExtracted
    /\ hoursIn = NoHours
    /\ hoursOut = NotEvaluated
    /\ restaurants = <<>>
    /\ passes = [p \in Procs |-> NoPass]
    /\ linkIn = NoLink
    /\ linkOut = NotRecorded
    /\ venue = NoVenue
    /\ pattern = NoPattern

\* a DealCreate is validated: the before-validator runs on the raw value
Validate ==
    /\ dayStage = "input"
    /\ dayOut' = normalize_day_of_week(dayIn)
    /\ dayStage' = "validated"
    /\ UNCHANGED <<dayIn, dayAgain, storeVars, extractVars, hoursVars, restaurants, passes, linkVars, venue, pattern>>

\* _model_to_schema reads a stored day list back
ReadFromDb ==
    /\ dayStage = "input"
    /\ dayIn.t # "str"
    /\ dayOut' = normalize_days_from_db(dayIn.l)
    /\ dayStage' = "read"
    /\ UNCHANGED <<dayIn, dayAgain, storeVars, extractVars, hoursVars, restaurants, passes, linkVars, venue, pattern>>

\* the scraper's save_deals normalizes a candidate's day_of_week before it
\* matches and stores it
NormalizeScraped ==
    /\ dayStage = "input"
    /\ dayOut' = normalize_days(dayIn)
    /\ dayStage' = "scraped"
    /\ UNCHANGED <<dayIn, dayAgain, storeVars, extractVars, hoursVars, restaurants, passes, linkVars, venue, pattern>>

\* the result, as a list, is validated again
Revalidate ==
    /\ dayStage \in {"validated", "read"}
    /\ dayAgain' = normalize_day_of_week(ListV(dayOut))
    /\ dayStage' = "again"
    /\ UNCHANGED <<dayIn, dayOut, storeVars, extractVars, hoursVars, restaurants, passes, linkVars, venue, pattern>>

NextDays == Validate \/ ReadFromDb \/ NormalizeScraped \/ Revalidate

SpecDays == InitDays /\ [][NextDays]_vars

---------------------------------------------------------------------------
(* Extraction of one deals page as a machine of its own *)

\* what __has_large_image returns: None, an absolute URL, a relative one
ImageLinks == {NULL, "https://pub.example/menu.png", "/img/menu.png"}

Pages ==
    [text_response : Responses,
     image_link : ImageLinks,
     fetch_ok : BOOLEAN,
     image_content_type : {"image/png", "text/html"},
     image_response : Responses]

InitExtract ==
    /\ deals = <<>>
    /\ nextUuid = 1
    /\ now = 0
    /\ last = NoOp
    /\ dayIn = NullV
    /\ dayOut = <<>>
    /\ dayAgain = <<>>
    /\ dayStage = "idle"
    /\ pageIn \in Pages
    /\ pageOut = NotExtracted
    /\ hoursIn = NoHours
    /\ hoursOut = NotEvaluated
    /\ restaurants = <<>>
    /\ passes = [p \in Procs |-> NoPass]
    /\ linkIn = NoLink
    /\ linkOut = NotRecorded
    /\ venue = NoVenue
    /\ pattern = NoPattern

FindDealDetails ==
    /\ pageOut.stage = "input"
    /\ pageOut' = find_deal_details(pageIn)
    /\ UNCHANGED <<pageIn, storeVars, dayVars, hoursVars, restaurants, passes, linkVars, venue, pattern>>

NextExtract == FindDealDetails

SpecExtract == InitExtract /\ [][NextExtract]_vars

---------------------------------------------------------------------------
(* The open-now evaluation as a machine of its own *)

\* the wall-clock times the model reads: 01:00, 03:00, 12:00, 23:00
ClockTimes == {60, 180, 720, 1380}

InitHours ==
    /\ deals = <<>>
    /\ nextUuid = 1
    /\ now = 0
    /\ last = NoOp
    /\ dayIn = NullV
    /\ dayOut = <<>>
    /\ dayAgain = <<>>
    /\ dayStage = "idle"
    /\ pageIn = NoPage
    /\ pageOut = NotExtracted
    /\ hoursIn \in [open_hours : SeqsUpTo(HoursEntries, MaxHours),
                     timezone : Timezones,
                     day : Range(WeekDays),
                     time : ClockTimes]
    /\ hoursOut = NotEvaluated
    /\ restaurants = <<>>
    /\ passes = [p \in Procs |-> NoPass]
    /\ linkIn = NoLink
    /\ linkOut = NotRecorded
    /\ venue = NoVenue
    /\ pattern = NoPattern

IsRestaurantOpenNow ==
    /\ hoursOut.stage = "input"
    /\ hoursOut' = [stage |-> "done",
                    open |-> is_restaurant_open_now(hoursIn, hoursIn)]
    /\ UNCHANGED <<hoursIn, storeVars, dayVars, extractVars, restaurants, passes, linkVars, venue, pattern>>

NextHours == IsRestaurantOpenNow

SpecHours == InitHours /\ [][NextHours]_vars

---------------------------------------------------------------------------
(* The restaurants table as a machine of its own *)

\* the next fresh restaurant uuid
next_restaurant_uuid == Cardinality(DOMAIN restaurants) + 1

\* RestaurantService.upsert_restaurant_from_gmaps, from the search pipeline
UpsertRestaurantFromGmaps(gmaps_data) ==
    /\ now < MaxUpserts
    /\ \E t \in {upsert_restaurant_from_gmaps(restaurants, gmaps_data,
                                              next_restaurant_uuid, now + 1)} :
          /\ Cardinality(DOMAIN t) <= MaxRestaurants
          /\ restaurants' = t
    /\ now' = now + 1
    /\ last' = [NoOp EXCEPT !.op = "upsert_restaurant_from_gmaps"]
    /\ UNCHANGED <<deals, nextUuid, dayVars, extractVars, hoursVars, passes, linkVars, venue, pattern>>

\* RestaurantService.upsert_restaurant, the legacy entry point:
\* RestaurantRepository.upsert with the caller's RestaurantCreate
UpsertRestaurant(restaurant_data) ==
    /\ now < MaxUpserts
    /\ \E t \in {upsert(restaurants, restaurant_data, next_restaurant_uuid, now + 1)} :
          /\ Cardinality(DOMAIN t) <= MaxRestaurants
          /\ restaurants' = t
    /\ now' = now + 1
    /\ last' = [NoOp EXCEPT !.op = "upsert_restaurant"]
    /\ UNCHANGED <<deals, nextUuid, dayVars, extractVars, hoursVars, passes, linkVars, venue, pattern>>

DeleteRestaurant(uuid) ==
    /\ now < MaxUpserts
    /\ uuid \in DOMAIN restaurants
    /\ restaurants' = restaurant_delete(restaurants, uuid, now + 1)
    /\ now' = now + 1
    /\ last' = [NoOp EXCEPT !.op = "delete_restaurant", !.uuid = uuid]
    /\ UNCHANGED <<deals, nextUuid, dayVars, extractVars, hoursVars, passes, linkVars, venue, pattern>>

NextRestaurants ==
    \/ \E gmaps_data \in GmapsData : UpsertRestaurantFromGmaps(gmaps_data)
    \/ \E restaurant_data \in RestaurantCreates : UpsertRestaurant(restaurant_data)
    \/ \E uuid \in 1..MaxRestaurants : DeleteRestaurant(uuid)

SpecRestaurants == Init /\ [][NextRestaurants]_vars

---------------------------------------------------------------------------
(* save_deals of handlers that run at the same time.  Each handler is a     *)
(* Lambda invocation of its own; save_deals takes no lock and makes no      *)
(* conditional write, so between its query and its batch write any other    *)
(* invocation may query or write.                                           *)

\* the candidate lists of concurrent scrapes: one or two deals with a dish
ConcurrentLists ==
    {<<c>> : c \in {c \in Candidates : HasDish(c)}}
    \cup {<<Cand("wings", "$10", ListV(<<"mon", "tue">>), NULL),
             Cand("parma", NULL, NullV, NULL)>>}

\* save_deals up to and including get_deals_by_restaurant_id: the pass holds
\* what the query returned (the table as it was then)
PassRead(p, restaurant_id, deal_infos) ==
    /\ passes[p].pc = "idle"
    /\ now < MaxPasses
    /\ passes' = [passes EXCEPT ![p] =
                    [pc |-> "read", restaurant_id |-> restaurant_id,
                     deals |-> deal_infos, table |-> deals]]
    /\ UNCHANGED <<storeVars, dayVars, extractVars, hoursVars, restaurants, linkVars, venue, pattern>>

\* the rest of save_deals: the three lists are computed from what was read
\* and written in one batch
PassWrite(p) ==
    /\ passes[p].pc = "read"
    /\ now < MaxPasses
    /\ \E r \in {save_deals(passes[p].deals, passes[p].restaurant_id,
                             passes[p].table, TRUE, nextUuid, now + 1)} :
          /\ nextUuid + Len(r.new_deals) - 1 <= MaxDeals
          /\ deals' = batch_put(deals, r.new_deals \o r.updated_deals
                                                   \o r.obsolete_deals)
          /\ nextUuid' = nextUuid + Len(r.new_deals)
          /\ last' = [NoOp EXCEPT !.op = "save_deals",
                                  !.restaurant_id = passes[p].restaurant_id,
                                  !.deals = passes[p].deals,
                                  !.new = Len(r.new_deals),
                                  !.updated = Len(r.updated_deals),
                                  !.obsolete = Len(r.obsolete_deals),
                                  !.status = 200]
    /\ now' = now + 1
    /\ passes' = [passes EXCEPT ![p] = NoPass]
    /\ UNCHANGED <<dayVars, extractVars, hoursVars, restaurants, linkVars, venue, pattern>>

NextConcurrent ==
    \/ \E p \in Procs, restaurant_id \in Restaurants, deal_infos \in ConcurrentLists :
            PassRead(p, restaurant_id, deal_infos)
    \/ \E p \in Procs : PassWrite(p)

SpecConcurrent == Init /\ [][NextConcurrent]_vars

---------------------------------------------------------------------------
(* Runs of find_deals on whole venues *)

\* what find_deal_details can leave for a page
PageResults == {find_deal_details(p) : p \in Pages}

VenueResults == SeqsUpTo(PageResults, MaxPages)

NextVenue ==
    \E restaurant_id \in Restaurants, results \in VenueResults,
       query_ok \in BOOLEAN, write_ok \in BOOLEAN :
         FindDealsVenue(restaurant_id, results, query_ok, write_ok)

SpecVenue == Init /\ [][NextVenue]_vars

---------------------------------------------------------------------------
(* _day_matches as a machine of its own *)

InitPatterns ==
    /\ deals = <<>>
    /\ nextUuid = 1
    /\ now = 0
    /\ last = NoOp
    /\ dayIn = NullV
    /\ dayOut = <<>>
    /\ dayAgain = <<>>
    /\ dayStage = "idle"
    /\ pageIn = NoPage
    /\ pageOut = NotExtracted
    /\ hoursIn = NoHours
    /\ hoursOut = NotEvaluated
    /\ restaurants = <<>>
    /\ passes = [p \in Procs |-> NoPass]
    /\ linkIn = NoLink
    /\ linkOut = NotRecorded
    /\ venue = NoVenue
    /\ pattern \in [current_day : Range(WeekDays), day_pattern : DayPatterns,
                     stage : {"input"}, matches : {FALSE}]

DayMatches ==
    /\ pattern.stage = "input"
    /\ pattern' = [pattern EXCEPT !.stage = "done",
                                  !.matches = day_matches(pattern.current_day,
                                                          pattern.day_pattern)]
    /\ UNCHANGED <<storeVars, dayVars, extractVars, hoursVars, restaurants,
                   passes, linkVars, venue>>

NextPatterns == DayMatches

SpecPatterns == InitPatterns /\ [][NextPatterns]_vars

---------------------------------------------------------------------------
(* The second pass over one link as a machine of its own *)

InitLinks ==
    /\ deals = <<>>
    /\ nextUuid = 1
    /\ now = 0
    /\ last = NoOp
    /\ dayIn = NullV
    /\ dayOut = <<>>
    /\ dayAgain = <<>>
    /\ dayStage = "idle"
    /\ pageIn = NoPage
    /\ pageOut = NotExtracted
    /\ hoursIn = NoHours
    /\ hoursOut = NotEvaluated
    /\ restaurants = <<>>
    /\ passes = [p \in Procs |-> NoPass]
    /\ linkIn \in [text : LinkTexts, href : LinkHrefs]
    /\ linkOut = NotRecorded
    /\ venue = NoVenue
    /\ pattern = NoPattern

SecondPassLink ==
    /\ linkOut.stage = "input"
    /\ linkOut' = second_pass_link(linkIn)
    /\ UNCHANGED <<linkIn, storeVars, dayVars, extractVars, hoursVars,
                   restaurants, passes, venue, pattern>>

NextLinks == SecondPassLink

SpecLinks == InitLinks /\ [][NextLinks]_vars

---------------------------------------------------------------------------
(* What the claims speak of *)

\* the matching key of a candidate: its dish lowercased and trimmed, and
\* the set of its days lowercased
CandKey(c) ==
    <<Lower(Strip(c.dish)),
      IF c.day_of_week.t = "null" THEN {}
      ELSE IF c.day_of_week.t = "str" THEN {Lower(c.day_of_week.s)}
      ELSE {Lower(x) : x \in Range(c.day_of_week.l)}>>

\* the matching key of a stored deal
DealKey(d) == <<Lower(Strip(d.dish)), {Lower(x) : x \in Range(d.day_of_week)}>>

\* the active deals of a restaurant
ActiveOf(restaurant_id) ==
    {u \in DOMAIN deals :
        deals[u].restaurant_id = restaurant_id /\ ~deals[u].is_deleted}

\* this step is a reconciliation pass
PassStep == now' = now + 1 /\ last'.op = "find_deals"

\* this step is a reconciliation pass in which the store answered
PassStepOK == PassStep /\ last'.query_ok /\ last'.write_ok

\* C1: a pass that repeats the pass before it (same restaurant, same
\* candidates, nothing in between, the store answering both times) creates,
\* updates and obsoletes nothing.
C1_SecondPassIsNoOp ==
    [][(/\ PassStepOK
        /\ last.op = "find_deals" /\ last.query_ok /\ last.write_ok
        /\ last'.restaurant_id = last.restaurant_id
        /\ last'.deals = last.deals)
       => (/\ last'.new = 0 /\ last'.updated = 0 /\ last'.obsolete = 0
           /\ deals' = deals)]_vars

\* C2: after a pass whose candidates all have a dish and pairwise distinct
\* keys, every candidate without a key-equal active deal has been created
\* under a new id, every active deal matched by a candidate with another
\* price has that price and updated_at set, every active deal matched by no
\* candidate is soft-deleted, and the three counts are the sizes of the
\* three groups.
C2_Completeness ==
    [][(/\ PassStepOK
        /\ \A i \in DOMAIN last'.deals : HasDish(last'.deals[i])
        /\ \A i, j \in DOMAIN last'.deals :
              i # j => CandKey(last'.deals[i]) # CandKey(last'.deals[j]))
       => LET C == last'.deals
              E == ActiveOf(last'.restaurant_id)
              creates == {i \in DOMAIN C :
                            \A u \in E : DealKey(deals[u]) # CandKey(C[i])}
              updates == {u \in E : \E i \in DOMAIN C :
                            /\ CandKey(C[i]) = DealKey(deals[u])
                            /\ normalize_price(C[i].price) # deals[u].price}
              obsoletes == {u \in E : \A i \in DOMAIN C :
                            CandKey(C[i]) # DealKey(deals[u])}
          IN /\ \A i \in creates :
                  \E u \in DOMAIN deals' \ DOMAIN deals :
                      /\ ~deals'[u].is_deleted
                      /\ deals'[u].restaurant_id = last'.restaurant_id
                      /\ DealKey(deals'[u]) = CandKey(C[i])
             /\ \A u \in updates : \E i \in DOMAIN C :
                      /\ CandKey(C[i]) = DealKey(deals[u])
                      /\ deals'[u].price = normalize_price(C[i].price)
                      /\ deals'[u].updated_at = now'
             /\ \A u \in obsoletes : deals'[u].is_deleted
             /\ last'.new = Cardinality(creates)
             /\ last'.updated = Cardinality(updates)
             /\ last'.obsolete = Cardinality(obsoletes)]_vars

\* C3: after a pass, whatever the candidates (none, or none with a dish),
\* every deal of the restaurant that was active and has no key-equal
\* candidate is soft-deleted.
C3_UnmatchedAreDeleted ==
    [][PassStepOK
       => \A u \in ActiveOf(last'.restaurant_id) :
             (\A i \in DOMAIN last'.deals :
                 ~HasDish(last'.deals[i])
                 \/ CandKey(last'.deals[i]) # DealKey(deals[u]))
             => deals'[u].is_deleted]_vars

\* C4: no step removes an item from the table: every uuid that is the key of
\* an item before a step is the key of an item after it.
C4_NeverHardDeleted == [][\A u \in DOMAIN deals : u \in DOMAIN deals']_vars

C4_Witness ==
    /\ last.op = "soft_delete"
    /\ last.uuid \in DOMAIN deals
    /\ deals[last.uuid].is_deleted
    /\ deals[last.uuid].deleted_at = now

\* C5: a deal that a pass rewrote without soft-deleting it keeps its uuid,
\* restaurant_id, dish, day_of_week, created_at, is_deleted and deleted_at.
C5_UpdateFrame ==
    [][PassStep
       => \A u \in DOMAIN deals :
             (deals'[u] # deals[u] /\ ~deals'[u].is_deleted)
             => /\ deals'[u].uuid = deals[u].uuid
                /\ deals'[u].restaurant_id = deals[u].restaurant_id
                /\ deals'[u].dish = deals[u].dish
                /\ deals'[u].day_of_week = deals[u].day_of_week
                /\ deals'[u].created_at = deals[u].created_at
                /\ deals'[u].is_deleted = deals[u].is_deleted
                /\ deals'[u].deleted_at = deals[u].deleted_at]_vars

\* a pass has just updated a deal whose stored dish is written otherwise
\* than the candidate's
C5_Witness ==
    /\ last.op = "find_deals" /\ ~last.raised /\ last.updated = 1
    /\ \E u \in DOMAIN deals, i \in DOMAIN last.deals :
          /\ deals[u].updated_at = now /\ ~deals[u].is_deleted
          /\ HasDish(last.deals[i])
          /\ CandKey(last.deals[i]) = DealKey(deals[u])
          /\ Strip(last.deals[i].dish) # deals[u].dish
          /\ normalize_price(last.deals[i].price) = deals[u].price

\* C6: when exactly one candidate and one active deal have the same key,
\* the deal takes the candidate's price and notes if either differs, and
\* is left alone if both are equal.
C6_PriceOrNotesUpdate ==
    [][PassStepOK
       => LET C == last'.deals
              E == ActiveOf(last'.restaurant_id)
              Matches(i, u) == HasDish(C[i]) /\ CandKey(C[i]) = DealKey(deals[u])
          IN \A u \in E, i \in DOMAIN C :
                (/\ Matches(i, u)
                 /\ \A j \in DOMAIN C : Matches(j, u) => j = i
                 /\ \A v \in E : Matches(i, v) => v = u)
                => IF \/ normalize_price(C[i].price) # deals[u].price
                      \/ C[i].notes # deals[u].notes
                   THEN /\ deals'[u].price = normalize_price(C[i].price)
                        /\ deals'[u].notes = C[i].notes
                   ELSE deals'[u] = deals[u]]_vars

\* C7: a pass leaves every soft-deleted deal as it is, and a candidate
\* whose key is the key of soft-deleted deals only, and of no active deal
\* of the restaurant, is created under a new uuid: the pass adds as many
\* active deals with that key as it has candidates with that key.
C7_DeletedNeverMatched ==
    [][PassStep
       => /\ \A u \in DOMAIN deals : deals[u].is_deleted => deals'[u] = deals[u]
          /\ (last'.write_ok /\ ~last'.early)
             => LET C == last'.deals
                    r == last'.restaurant_id
                IN \A i \in DOMAIN C :
                      (/\ HasDish(C[i])
                       /\ \A u \in ActiveOf(r) : DealKey(deals[u]) # CandKey(C[i])
                       /\ \E u \in DOMAIN deals :
                             /\ deals[u].restaurant_id = r
                             /\ deals[u].is_deleted
                             /\ DealKey(deals[u]) = CandKey(C[i]))
                      => Cardinality({u \in DOMAIN deals' \ DOMAIN deals :
                                        /\ ~deals'[u].is_deleted
                                        /\ deals'[u].restaurant_id = r
                                        /\ deals'[u].created_at = now'
                                        /\ DealKey(deals'[u]) = CandKey(C[i])})
                         = Cardinality({j \in DOMAIN C :
                                        /\ HasDish(C[j])
                                        /\ CandKey(C[j]) = CandKey(C[i])})]_vars

\* a pass has just created a deal with the key of a deal of the same
\* restaurant that was soft-deleted before the pass
C7_Witness ==
    /\ last.op = "find_deals" /\ last.query_ok /\ last.write_ok
    /\ \E u, v \in DOMAIN deals :
          /\ deals[u].is_deleted /\ deals[u].deleted_at < now
          /\ ~deals[v].is_deleted /\ deals[v].created_at = now
          /\ deals[v].restaurant_id = deals[u].restaurant_id
          /\ deals[v].restaurant_id = last.restaurant_id
          /\ DealKey(deals[v]) = DealKey(deals[u])

\* C8: every stored deal has a non-empty day_of_week made of canonical days
\* only.
C8_StoredDaysCanonical ==
    \A u \in DOMAIN deals :
        /\ deals[u].day_of_week # <<>>
        /\ Range(deals[u].day_of_week) \subseteq CanonicalDays

\* C9: whatever a normalizer is handed (None, a str, a list of str), what it
\* returns is a non-empty list of canonical days.
C9_NormalizedNonEmpty ==
    /\ dayStage \in {"validated", "read", "again"}
       => dayOut # <<>> /\ Range(dayOut) \subseteq CanonicalDays
    /\ dayStage = "again"
       => dayAgain # <<>> /\ Range(dayAgain) \subseteq CanonicalDays

\* an unparseable scalar has been normalized
C9_Witness == dayStage = "validated" /\ dayIn = StrV("garbage")

\* C10: normalizing the list a normalizer returned gives the same day set.
C10_NormalizeIdempotent ==
    dayStage = "again" => Range(dayAgain) = Range(dayOut)

\* a scalar abbreviation has been normalized, and its result again
C10_Witness ==
    /\ dayStage = "again" /\ dayIn = StrV("Mon")
    /\ dayOut = <<"monday">> /\ dayAgain = <<"monday">>

\* the value is an everyday synonym, a list that holds one at some position,
\* or the list of the seven abbreviations
IsEveryday(v) ==
    \/ v.t = "str" /\ Strip(Lower(v.s)) \in everyday_variants
    \/ v.t = "list" /\ \E i \in DOMAIN v.l : Strip(Lower(v.l[i])) \in everyday_variants
    \/ v = ListV(AllAbbreviations)

\* C11: every scalar everyday synonym, every list with an everyday synonym
\* at any position and the list of the seven abbreviations normalize to the
\* set of all seven days.
C11_EverydayEquivalence ==
    (dayStage \in {"validated", "read"} /\ IsEveryday(dayIn))
    => Range(dayOut) = CanonicalDays

\* a list with a day first and an everyday synonym second has been validated
C11_Witness ==
    /\ dayStage = "validated" /\ dayIn = ListV(<<"mon", "Daily">>)
    /\ Range(dayOut) = CanonicalDays

\* C12: the handler never returns the success result (status 200) for a run
\* whose batch write raised.
C12_WriteFailureSurfaced ==
    [][(PassStep /\ last'.raised) => last'.status # 200]_vars

\* C13: when navigation to the entry URL times out or fails, the handler
\* returns the error result in that same run (nothing is tried again), and
\* the table and the uuids handed out are what they were before the run.
C13_UnreachableIsFailure ==
    [][(now' = now + 1 /\ last'.op = "find_deals_page")
       => /\ last'.status = 500
          /\ deals' = deals
          /\ nextUuid' = nextUuid
          /\ last'.new = 0 /\ last'.updated = 0 /\ last'.obsolete = 0]_vars

\* a navigation failed for a restaurant that has active deals
C13_Witness ==
    /\ last.op = "find_deals_page" /\ last.status = 500
    /\ ActiveOf(last.restaurant_id) # {}

\* C14: when the text model's answer is not JSON, the extraction of the
\* page does not raise and its deal_info has dish None, price None and all
\* seven days as day_of_week.
C14_MalformedTolerated ==
    (pageOut.stage = "done" /\ pageIn.text_response \in NotJson)
    => /\ ~pageOut.raised
       /\ pageOut.deal_info.k = "dict"
       /\ pageOut.deal_info.d.dish = NULL
       /\ pageOut.deal_info.d.price = NULL
       /\ pageOut.deal_info.d.day_of_week.t = "list"
       /\ Range(pageOut.deal_info.d.day_of_week.l) = CanonicalDays

\* the day after a day
NextDay(d) ==
    LET i == CHOOSE i \in DOMAIN WeekDays : WeekDays[i] = d
    IN WeekDays[(i % 7) + 1]

\* the line gives the single day d a range that starts later than it ends
Overnight(hours_entry, d) ==
    LET match == day_time_match(hours_entry)
        m == time_pattern_search(match.time_part)
    IN /\ match.ok /\ m.ok /\ ~is_closed(hours_entry)
       /\ day_pattern_parts(match.day_part) = <<day_lower(d)>>
       /\ to_24h(m.h1, m.p1) * 60 + m.m1 > to_24h(m.h2, m.p2) * 60 + m.m2

\* the minute at which the range of the line ends
RangeEnd(hours_entry) ==
    LET m == time_pattern_search(day_time_match(hours_entry).time_part)
    IN to_24h(m.h2, m.p2) * 60 + m.m2

\* the line says nothing about day d: it is no 24-hours line and its day
\* part does not match d
Silent(hours_entry, d) ==
    /\ ~is_24_hours(hours_entry)
    /\ day_time_match(hours_entry).ok
          => ~day_matches(d, day_time_match(hours_entry).day_part)

\* C15: when a line gives day D a range whose start is later than its end
\* and no other line covers day D+1, the restaurant (with a timezone) is
\* open on day D+1 at a time not later than the end and closed after it.
C15_OvernightWraps ==
    (hoursOut.stage = "done" /\ hoursIn.timezone = "Australia/Sydney")
    => \A i \in DOMAIN hoursIn.open_hours, d \in Range(WeekDays) :
          (/\ Overnight(hoursIn.open_hours[i], d)
           /\ hoursIn.day = NextDay(d)
           /\ \A j \in DOMAIN hoursIn.open_hours :
                 j # i => Silent(hoursIn.open_hours[j], NextDay(d)))
          => (hoursOut.open <=> hoursIn.time <= RangeEnd(hoursIn.open_hours[i]))

\* C16: without a timezone is-open-now is false, whatever the lines are.
C16_FailClosedWithoutTimezone ==
    (hoursOut.stage = "done" /\ hoursIn.timezone \in {NULL, ""})
    => ~hoursOut.open

\* a restaurant with a 24-hours line and no timezone has been evaluated
C16_Witness ==
    /\ hoursOut.stage = "done" /\ hoursIn.timezone = NULL
    /\ \E i \in DOMAIN hoursIn.open_hours : is_24_hours(hoursIn.open_hours[i])
    /\ ~hoursOut.open

\* C17: no upsert changes the timezone of a restaurant that exists: after
\* any sequence of upserts the stored timezone is the one stored at creation.
C17_TimezoneNeverRecomputed ==
    [][\A u \in DOMAIN restaurants :
          restaurants'[u].timezone = restaurants[u].timezone]_vars

\* no two passes for one restaurant are between their read and their write
Serialized ==
    \A p, q \in Procs :
        (p # q /\ passes[p].pc = "read" /\ passes[q].pc = "read")
        => passes[p].restaurant_id # passes[q].restaurant_id

\* no two active deals of a restaurant have the same key
NoDuplicateKeys ==
    \A u, v \in DOMAIN deals :
        (/\ u # v /\ ~deals[u].is_deleted /\ ~deals[v].is_deleted
         /\ deals[u].restaurant_id = deals[v].restaurant_id)
        => DealKey(deals[u]) # DealKey(deals[v])

\* C18: passes for the same restaurant are serialized: no pass reads the
\* restaurant's deals while another pass for it is between its read and its
\* write; so overlapping scrapes (each with candidates of distinct keys)
\* never leave two active deals with one key, and no write of a pass makes
\* a soft-deleted deal active again.
C18_PassesSerialized ==
    [][/\ Serialized'
       /\ NoDuplicateKeys'
       /\ \A u \in DOMAIN deals : deals[u].is_deleted => deals'[u].is_deleted]_vars

\* the items of a table that belong to a restaurant
DealsOf(table, restaurant_id) ==
    [u \in {v \in DOMAIN table : table[v].restaurant_id = restaurant_id} |-> table[u]]

\* C19: the batch write of a pass for restaurant R leaves every deal of
\* every other restaurant as it is and adds deals of R only; and when the
\* deals of R are what the pass read, the write is the write of a pass run
\* from start to end at this moment, whatever passes for other restaurants
\* have written since the read.
C19_PassScopedToRestaurant ==
    [][\A p \in Procs :
          (passes[p].pc = "read" /\ passes'[p].pc = "idle")
          => LET R == passes[p].restaurant_id
                 alone == save_deals(passes[p].deals, R, deals, TRUE, nextUuid, now + 1)
             IN /\ \A u \in DOMAIN deals :
                      deals[u].restaurant_id # R => deals'[u] = deals[u]
                /\ \A u \in DOMAIN deals' \ DOMAIN deals :
                      deals'[u].restaurant_id = R
                /\ DealsOf(passes[p].table, R) = DealsOf(deals, R)
                   => deals' = batch_put(deals, alone.new_deals \o alone.updated_deals
                                                    \o alone.obsolete_deals)]_vars

\* a pass has written while a pass for another restaurant, which read an
\* older table, is still running, and both restaurants have deals
C19_Witness ==
    /\ last.op = "save_deals"
    /\ \E q \in Procs :
          /\ passes[q].pc = "read"
          /\ passes[q].restaurant_id # last.restaurant_id
          /\ passes[q].table # deals
          /\ ActiveOf(passes[q].restaurant_id) # {}
          /\ ActiveOf(last.restaurant_id) # {}

\* (a) of the acceptance rule: the lowercased text has a deal-specific
\* keyword and no blacklisted term
AcceptedByText(link) ==
    /\ has_deal_specific_keyword(Strip(Lower(link.text)))
    /\ ~has_blacklisted(Strip(Lower(link.text)))

\* (b) of the acceptance rule: the href ends in an image extension and has
\* a deal-specific keyword, and the text has no blacklisted term
AcceptedByImage(link) ==
    /\ link.href # NULL
    /\ ends_with_image_extension(link.href)
    /\ has_deal_specific_keyword(Lower(link.href))
    /\ ~has_blacklisted(Strip(Lower(link.text)))

\* C20 as stated: a link is recorded if and only if (a) or (b) holds, and a
\* recorded link has link_type image exactly when its href ends in an image
\* extension.
C20_LinkAcceptance ==
    linkOut.stage = "done"
    => /\ linkOut.recorded <=> (AcceptedByText(linkIn) \/ AcceptedByImage(linkIn))
       /\ linkOut.recorded
          => (linkOut.link_type = "image" <=> ends_with_image_extension(linkIn.href))

\* C20 amended: a link is recorded if and only if it has a non-empty href
\* that names no social or mail target and (a) or (b) holds; a recorded link
\* has link_type image exactly when its href ends in an image extension, and
\* one accepted by (b) alone has its href as image_link.
C20_LinkAcceptanceAmended ==
    linkOut.stage = "done"
    => /\ linkOut.recorded
          <=> (/\ linkIn.href \notin {NULL, ""}
               /\ ~is_social(linkIn.href)
               /\ (AcceptedByText(linkIn) \/ AcceptedByImage(linkIn)))
       /\ linkOut.recorded
          => /\ linkOut.link_type = "image" <=> ends_with_image_extension(linkIn.href)
             /\ ~AcceptedByText(linkIn) => linkOut.image_link = linkIn.href

\* an image link with a keyword in its href and an empty text was recorded
C20_Witness ==
    /\ linkOut.stage = "done" /\ linkOut.recorded
    /\ linkIn.text = "" /\ linkIn.href = "/uploads/2024/02/Wednesday.jpg"
    /\ linkOut.link_type = "image" /\ linkOut.image_link = linkIn.href

\* C21: after every step each deal is soft-deleted exactly when it has a
\* deleted_at, and a deal that a pass has just soft-deleted has deleted_at
\* and updated_at both equal to the time of the pass.
C21_DeletedHasTimestamp ==
    [][/\ \A u \in DOMAIN deals' :
            deals'[u].is_deleted <=> deals'[u].deleted_at # NoTime
       /\ PassStep
          => \A u \in DOMAIN deals :
                (~deals[u].is_deleted /\ deals'[u].is_deleted)
                => /\ deals'[u].deleted_at = now'
                   /\ deals'[u].updated_at = now']_vars

\* a pass has just soft-deleted a deal that an earlier pass had created
C21_Witness ==
    /\ last.op = "find_deals" /\ last.obsolete > 0
    /\ \E u \in DOMAIN deals :
          /\ deals[u].is_deleted
          /\ deals[u].created_at < now
          /\ deals[u].deleted_at = now /\ deals[u].updated_at = now

\* one of dish, price and day_of_week is null in, or missing from, what the
\* text stage returned
FallbackNeeded(d) ==
    \/ d.dish = NULL
    \/ d.price = NULL
    \/ d.day_of_week.t \in {"null", "missing"}

\* C24: for a page whose text stage returned an object, the image stage is
\* entered if and only if one of the three fields is null or missing and
\* the page has a large image with an absolute http(s) URL (inside the
\* stage the vision model is asked unless the content type is outside the
\* allow-list); when it is not entered the text result is the page's
\* deal_info.
C24_TwoStageExtraction ==
    (pageOut.stage = "done" /\ extract_deal_details_from_text(pageIn.text_response).k = "dict")
    => LET text_result == extract_deal_details_from_text(pageIn.text_response) IN
       /\ pageOut.image_stage
          <=> (FallbackNeeded(text_result.d) /\ is_absolute(pageIn.image_link))
       /\ pageOut.vision_called => pageOut.image_stage
       /\ (pageOut.image_stage /\ ~pageOut.raised
            /\ pageIn.image_content_type \in {"image/png", "image/jpeg", "image/gif"})
          => pageOut.vision_called
       /\ ~pageOut.image_stage
          => ~pageOut.raised /\ pageOut.deal_info = text_result

\* this step is a run of find_deals on a venue in which no page raised
VenueStep ==
    /\ now' = now + 1 /\ last'.op = "find_deals_venue"
    /\ \A i \in DOMAIN venue'.results : ~venue'.results[i].raised

\* the objects of a page's extraction output that have a non-empty dish
CandidatesOf(deal_info) ==
    CASE deal_info.k = "dict" -> IF HasDish(deal_info.d) THEN <<deal_info.d>> ELSE <<>>
      [] deal_info.k = "list" -> SelectSeq(deal_info.l, HasDish)
      [] OTHER -> <<>>

\* the same for the pages of a venue, in page order
RECURSIVE CandidatesOfVenue(_)
CandidatesOfVenue(results) ==
    IF results = <<>> THEN <<>>
    ELSE CandidatesOf(results[1].deal_info) \o CandidatesOfVenue(Tail(results))

\* C22: in a run in which no page raised, save_deals is handed exactly the
\* objects with a non-empty dish of the pages' outputs (single objects and
\* members of lists), one candidate each, and no stored deal has a null or
\* empty dish.
C22_DishlessDiscarded ==
    [][VenueStep
       => /\ venue'.handed
          /\ venue'.deals_to_save = CandidatesOfVenue(venue'.results)
          /\ \A u \in DOMAIN deals' : deals'[u].dish \notin {NULL, ""}]_vars

\* C25: in a run in which a page's image had a content type outside the
\* allow-list and no page raised, handler returns 200, the candidates of
\* the other pages are handed to save_deals, and when the store answers
\* each of them has an active deal of the restaurant afterwards.
C25_DisallowedImageSkipsOnly ==
    [][(VenueStep /\ \E i \in DOMAIN venue'.results :
                        venue'.results[i].deal_info = StrJ("n/a"))
       => /\ last'.status = 200
          /\ venue'.handed
          /\ venue'.deals_to_save = CandidatesOfVenue(venue'.results)
          /\ (last'.query_ok /\ last'.write_ok)
             => \A i \in DOMAIN venue'.deals_to_save :
                   \E u \in DOMAIN deals' :
                      /\ ~deals'[u].is_deleted
                      /\ deals'[u].restaurant_id = last'.restaurant_id
                      /\ DealKey(deals'[u]) = CandKey(venue'.deals_to_save[i])]_vars

\* C23: for a list of strings, what each of the three normalizers returns
\* (the API validator, the scraper's normalize_deal_data, the read from
\* storage) is the same day set.
C23_NormalizersAgree ==
    (dayIn.t = "list" /\ dayStage \in {"validated", "scraped", "read"})
    => /\ Range(dayOut) = Range(normalize_day_of_week(dayIn))
       /\ Range(dayOut) = Range(normalize_days(dayIn))
       /\ Range(dayOut) = Range(normalize_days_from_db(dayIn.l))

\* C26: every link that the second pass recorded with link_type image has
\* its href recorded as image_link.
C26_ImageLinkRecorded ==
    (linkOut.stage = "done" /\ linkOut.recorded /\ linkOut.link_type = "image")
    => linkOut.image_link = linkIn.href

\* the place of a day in the week, Monday first, for a day name or an
\* abbreviation in lower case
WeekIndex(token) ==
    CHOOSE i \in DOMAIN WeekDays : token \in day_abbrev[WeekDays[i]]

\* a day lies on the way from the day X forward to the day Y in week order
InSpan(current, X, Y) ==
    (WeekIndex(current) - WeekIndex(X)) % 7 <= (WeekIndex(Y) - WeekIndex(X)) % 7

\* C27: a single day name or abbreviation matches that day and no other,
\* and a range X-Y matches exactly the days from X forward to Y in week
\* order, across the week boundary when X comes after Y.
C27_DayPatternMatches ==
    pattern.stage = "done"
    => LET parts == day_pattern_parts(pattern.day_pattern)
           current == day_lower(pattern.current_day)
       IN pattern.matches
          <=> IF Len(parts) = 1 THEN WeekIndex(current) = WeekIndex(parts[1])
              ELSE InSpan(current, parts[1], parts[2])

\* Saturday has been matched against the range from Friday to Monday
C27_Witness ==
    /\ pattern.stage = "done" /\ pattern.matches
    /\ pattern.current_day = "Saturday" /\ pattern.day_pattern = "Fri-Mon"

\* C28: no two active deals of one restaurant have the same matching key.
C28_UniqueActiveKeys ==
    \A r \in Restaurants : \A u, v \in ActiveOf(r) :
        u # v => DealKey(deals[u]) # DealKey(deals[v])

\* C29: no step changes a soft-deleted deal: its is_deleted, price, notes,
\* deleted_at and updated_at, and its other fields, stay what they were.
C29_SoftDeletePermanent ==
    [][\A u \in DOMAIN deals :
          deals[u].is_deleted
          => /\ deals'[u].is_deleted
             /\ deals'[u].price = deals[u].price
             /\ deals'[u].notes = deals[u].notes
             /\ deals'[u].deleted_at = deals[u].deleted_at
             /\ deals'[u].updated_at = deals[u].updated_at
             /\ deals'[u] = deals[u]]_vars

\* an update has just been asked for a deal that was soft-deleted earlier,
\* and the deal is as the deletion left it
C29_Witness ==
    /\ last.op = "update" /\ last.uuid \in DOMAIN deals
    /\ deals[last.uuid].is_deleted
    /\ deals[last.uuid].deleted_at < now
    /\ deals[last.uuid].updated_at = deals[last.uuid].deleted_at

\* the number of candidates of a list that have a dish
NumWithDish(C) == Cardinality({i \in DOMAIN C : HasDish(C[i])})

\* C30: a pass whose query for the existing deals fails creates one new
\* deal for every candidate with a dish, updates and soft-deletes nothing,
\* leaves every deal it found in the table as it is, and handler returns
\* 200.
C30_QueryFailureCreatesAll ==
    [][(PassStep /\ ~last'.query_ok /\ ~last'.early)
       => /\ last'.new = NumWithDish(last'.deals)
          /\ last'.updated = 0 /\ last'.obsolete = 0
          /\ last'.status = 200
          /\ \A u \in DOMAIN deals : deals'[u] = deals[u]
          /\ last'.write_ok
             => /\ Cardinality(DOMAIN deals' \ DOMAIN deals) = NumWithDish(last'.deals)
                /\ \A u \in DOMAIN deals' \ DOMAIN deals :
                      /\ ~deals'[u].is_deleted
                      /\ deals'[u].restaurant_id = last'.restaurant_id
                      /\ deals'[u].created_at = now']_vars

\* a pass whose query failed has just created a deal with the key of a deal
\* that was, and still is, active
C30_Witness ==
    /\ last.op = "find_deals" /\ ~last.query_ok /\ last.write_ok /\ last.new > 0
    /\ \E u, v \in ActiveOf(last.restaurant_id) :
          /\ deals[u].created_at < now /\ deals[v].created_at = now
          /\ DealKey(deals[u]) = DealKey(deals[v])

=============================================================================
